---- MODULE Spec2Model ----
(***************************************************************************)
(* Model of .github/workflows/resume_analyzer.py: the ResumeAnalyzer class *)
(* (taxonomy loading, skill counting, suggestions, report formatting) and  *)
(* the CLI driver main().                                                  *)
(*                                                                         *)
(* Strings are sequences of character codes.  1 = "A", 2 = "B" (upper      *)
(* case), 3 = "a", 4 = "b" (lower case); str.lower() maps 1 -> 3, 2 -> 4.  *)
(* A taxonomy (a JSON object / Python dict, insertion ordered) is a        *)
(* sequence of records [category, skills] with distinct category names.    *)
(* A skill-counts mapping (dict) is a function from its keys to integers.  *)
(* A formatted line is a record carrying the fields the f-string prints.   *)
(***************************************************************************)
EXTENDS Integers, Sequences, FiniteSets, TLC

VARIABLES
    pc,            \* position in main() / in the function-level harness
    args_skills,   \* args.skills: "none" | "given"
    skills_file,   \* the --skills file as open/json.load found it
    db_file,       \* skills_db.json as os.path.exists/json.load found it
    resume_file,   \* the resume path as os.path.exists/fitz.open found it
    custom_db,     \* main's local skills_db (None or the parsed --skills file)
    db_content,    \* what json.load returned for skills_db.json (None if unread)
    skills_db,     \* analyzer.skills_db
    text,          \* the extracted, lower-cased text
    counts,        \* skill_counts
    suggestions,   \* the list returned by suggest_improvements
    out,           \* what has been printed, in order
    exit_code      \* process exit status: << >> while running, then <<status>>

vars == <<pc, args_skills, skills_file, db_file, resume_file, custom_db, db_content,
          skills_db, text, counts, suggestions, out, exit_code>>

(***************************************************************************)
(* Bounds of the model.                                                    *)
(***************************************************************************)
MaxTextLen == 3
MaxSkills == 2
MaxCount == 2

\* Values a skills_db variable can hold: None, a dict (a taxonomy), or a
\* JSON value that parses and is truthy but is not an object (e.g. 5).
None == [kind |-> "none", db |-> << >>]
NotAMapping == [kind |-> "scalar", db |-> << >>]
Dict(taxonomy) == [kind |-> "dict", db |-> taxonomy]

EmptyMap == [k \in {} |-> 0]

(***************************************************************************)
(* Strings.                                                                *)
(***************************************************************************)
LowerChars == {3, 4}

SeqsUpTo(S, n) == UNION {[1..k -> S] : k \in 0..n}

\* str.lower()
lower(s) == [i \in 1..Len(s) |-> IF s[i] <= 2 THEN s[i] + 2 ELSE s[i]]

\* sub occurs in t at position i
MatchAt(sub, t, i) ==
    /\ i + Len(sub) - 1 <= Len(t)
    /\ \A j \in 1..Len(sub) : t[i + j - 1] = sub[j]

\* `sub in t`
Contains(sub, t) == \E i \in 1..(Len(t) + 1) : MatchAt(sub, t, i)

RECURSIVE CountFrom(_, _, _)
CountFrom(sub, t, i) ==
    IF i + Len(sub) - 1 > Len(t) THEN 0
    ELSE IF MatchAt(sub, t, i) THEN 1 + CountFrom(sub, t, i + Len(sub))
    ELSE CountFrom(sub, t, i + 1)

\* t.count(sub): non-overlapping occurrences, scanning left to right;
\* the empty string occurs len(t) + 1 times.
Count(sub, t) == IF Len(sub) = 0 THEN Len(t) + 1 ELSE CountFrom(sub, t, 1)

\* Python's < on str: lexicographic by code point.
RECURSIVE StrLess(_, _)
StrLess(a, b) ==
    IF Len(b) = 0 THEN FALSE
    ELSE IF Len(a) = 0 THEN TRUE
    ELSE IF a[1] # b[1] THEN a[1] < b[1]
    ELSE StrLess(Tail(a), Tail(b))

(***************************************************************************)
(* Input universes.                                                        *)
(***************************************************************************)
\* Skill names: "", "A", "aa".
SkillNames == {<< >>, <<1>>, <<3, 3>>}
CategoryNames == {"Programming", "Data"}

SkillLists == SeqsUpTo(SkillNames, MaxSkills)

\* Taxonomies of up to two categories.  Category names are labels the code
\* only prints, so the two-category taxonomies are taken in one naming order.
Taxonomies ==
    {<< >>}
    \cup {<<[category |-> c, skills |-> l]>> : c \in CategoryNames, l \in SkillLists}
    \cup {<<[category |-> "Programming", skills |-> l1],
            [category |-> "Data", skills |-> l2]>> :
            l1 \in SkillLists, l2 \in SkillLists}

Texts == SeqsUpTo(LowerChars, MaxTextLen)

\* What json.load can return for a file that parses.
JsonValues == {Dict(t) : t \in Taxonomies} \cup {NotAMapping}

\* Python truthiness: None and the empty dict are falsy.
Truthy(v) == v.kind = "scalar" \/ (v.kind = "dict" /\ v.db # << >>)

(***************************************************************************)
(* DEFAULT_SKILLS, abridged to the character universe: a category of more  *)
(* than three skills, and one name ("aa", standing for "SQL") listed in    *)
(* both Programming and Data.                                              *)
(***************************************************************************)
DEFAULT_SKILLS ==
    <<[category |-> "Programming", skills |-> <<<<1>>, <<2>>, <<3, 3>>, <<3, 4>>>>],
      [category |-> "Data", skills |-> <<<<3, 3>>, <<4, 4>>>>],
      [category |-> "DevOps", skills |-> <<<<4, 3>>>>]>>

(***************************************************************************)
(* ResumeAnalyzer.__init__ / load_skills_db                                *)
(***************************************************************************)
\* load_skills_db when skills_db.json exists and parses to `content`,
\* or does not exist (content = None).
load_skills_db(exists, content) == IF exists THEN content ELSE Dict(DEFAULT_SKILLS)

\* self.skills_db = skills_db if skills_db else self.load_skills_db()
InitSkillsDb(given, exists, content) ==
    IF Truthy(given) THEN given ELSE load_skills_db(exists, content)

(***************************************************************************)
(* ResumeAnalyzer.analyze_skills                                           *)
(***************************************************************************)
RECURSIVE AllSkills(_)
\* the skills visited by the two nested loops, in visiting order
AllSkills(db) ==
    IF db = << >> THEN << >> ELSE Head(db).skills \o AllSkills(Tail(db))

\* skill_counts[k] += n on a defaultdict(int)
AddCount(sc, k, n) ==
    [x \in DOMAIN sc \cup {k} |->
        (IF x \in DOMAIN sc THEN sc[x] ELSE 0) + (IF x = k THEN n ELSE 0)]

RECURSIVE AnalyzeLoopUnguarded(_, _, _)
\* variant: the `if skill.lower() in text` test dropped
AnalyzeLoopUnguarded(skills, t, sc) ==
    IF skills = << >> THEN sc
    ELSE LET skill == Head(skills)
         IN  AnalyzeLoopUnguarded(Tail(skills), t,
                                  AddCount(sc, skill, Count(lower(skill), t)))

RECURSIVE AnalyzeLoop(_, _, _)
AnalyzeLoop(skills, t, sc) ==
    IF skills = << >> THEN sc
    ELSE LET skill == Head(skills)
         IN  IF Contains(lower(skill), t)
             THEN AnalyzeLoop(Tail(skills), t, AddCount(sc, skill, Count(lower(skill), t)))
             ELSE AnalyzeLoop(Tail(skills), t, sc)

analyze_skills(db, t) == AnalyzeLoop(AllSkills(db), t, EmptyMap)

(***************************************************************************)
(* ResumeAnalyzer.suggest_improvements                                     *)
(***************************************************************************)
Range(s) == {s[i] : i \in 1..Len(s)}

Prefix(s, n) == SubSeq(s, 1, IF Len(s) < n THEN Len(s) ELSE n)

\* variant: `not in` for `in`
FoundNegated(skills, sc) ==
    LET NotInCounts(s) == s \notin DOMAIN sc IN SelectSeq(skills, NotInCounts)

\* found = [s for s in skills if s in skill_counts]
Found(skills, sc) ==
    LET InCounts(s) == s \in DOMAIN sc IN SelectSeq(skills, InCounts)

\* variant: the filter dropped
MissingUnfiltered(skills, found) == Prefix(skills, 2)

\* missing = [s for s in skills if s not in found][:2]
Missing(skills, found) ==
    LET NotFound(s) == s \notin Range(found) IN Prefix(SelectSeq(skills, NotFound), 2)

\* variant: `len(found) <= 2` for `len(found) < 2`
SuggestForOffByOne(cat, sc) ==
    LET found == Found(cat.skills, sc)
    IN  IF Len(found) = 0
        THEN <<[kind |-> "missing", category |-> cat.category,
                listed |-> Prefix(cat.skills, 3)]>>
        ELSE IF Len(found) <= 2
        THEN <<[kind |-> "few", category |-> cat.category,
                listed |-> Missing(cat.skills, found)]>>
        ELSE << >>

\* the body of the loop for one category: the suggestions it appends
SuggestFor(cat, sc) ==
    LET found == Found(cat.skills, sc)
    IN  IF Len(found) = 0
        THEN <<[kind |-> "missing", category |-> cat.category,
                listed |-> Prefix(cat.skills, 3)]>>
        ELSE IF Len(found) < 2
        THEN <<[kind |-> "few", category |-> cat.category,
                listed |-> Missing(cat.skills, found)]>>
        ELSE << >>

RECURSIVE suggest_improvements(_, _)
suggest_improvements(db, sc) ==
    IF db = << >> THEN << >>
    ELSE SuggestFor(Head(db), sc) \o suggest_improvements(Tail(db), sc)

(***************************************************************************)
(* ResumeAnalyzer.generate_report                                          *)
(***************************************************************************)
\* variant: the key (x[1], x[0]), ascending counts
KeyLessAscending(a, b) ==
    \/ a.cnt < b.cnt
    \/ a.cnt = b.cnt /\ StrLess(a.skill, b.skill)

\* the sort key (-x[1], x[0]): a sorts strictly before b
KeyLess(a, b) ==
    \/ a.cnt > b.cnt
    \/ a.cnt = b.cnt /\ StrLess(a.skill, b.skill)

Items(sc) == {[skill |-> k, cnt |-> sc[k]] : k \in DOMAIN sc}

RECURSIVE SortItems(_)
\* sorted(skill_counts.items(), key=...)
SortItems(items) ==
    IF items = {} THEN << >>
    ELSE LET m == CHOOSE x \in items : \A y \in items \ {x} : KeyLess(x, y)
         IN  <<m>> \o SortItems(items \ {m})

\* variant: `cnt >= 1` for `cnt > 1`
SkillLinePluralFromOne(item) ==
    [kind |-> "skill", skill |-> item.skill, cnt |-> item.cnt,
     suffix |-> IF item.cnt >= 1 THEN "s" ELSE ""]

\* f"... {skill}: {cnt} mention{'s' if cnt > 1 else ''}"
SkillLine(item) ==
    [kind |-> "skill", skill |-> item.skill, cnt |-> item.cnt,
     suffix |-> IF item.cnt > 1 THEN "s" ELSE ""]

SkillLines(sc) ==
    LET sorted == SortItems(Items(sc))
    IN  [i \in 1..Len(sorted) |-> SkillLine(sorted[i])]

\* variant: the "all good" line appended without the else
generate_reportAlwaysAllGood(sc, sugg) ==
    <<[kind |-> "analysis_header"]>>
    \o (IF DOMAIN sc = {} THEN <<[kind |-> "no_skills"]>> ELSE SkillLines(sc))
    \o (IF sugg # << >> THEN <<[kind |-> "suggestions_header"]>> \o sugg ELSE << >>)
    \o <<[kind |-> "all_good"]>>

\* The list `lines`; "\n".join(lines) keeps the lines and their order.
generate_report(sc, sugg) ==
    <<[kind |-> "analysis_header"]>>
    \o (IF DOMAIN sc = {} THEN <<[kind |-> "no_skills"]>> ELSE SkillLines(sc))
    \o (IF sugg # << >> THEN <<[kind |-> "suggestions_header"]>> \o sugg
        ELSE <<[kind |-> "all_good"]>>)

(***************************************************************************)
(* main().  A file is "unread" until the program touches it; what the      *)
(* program then finds ("missing", "bad": present but unparsable, "ok") is  *)
(* the environment's choice.                                               *)
(***************************************************************************)
Init ==
    /\ pc = "load_custom"
    /\ args_skills \in {"none", "given"}
    /\ skills_file = "unread"
    /\ db_file = "unread"
    /\ resume_file = "unread"
    /\ custom_db = None
    /\ db_content = None
    /\ skills_db = None
    /\ text = << >>
    /\ counts = EmptyMap
    /\ suggestions = << >>
    /\ out = << >>
    /\ exit_code = << >>

\* skills_db = None; if args.skills: with open(...) as sf: skills_db = json.load(sf)
LoadCustom ==
    /\ pc = "load_custom"
    /\ \/ /\ args_skills = "none"
          /\ pc' = "construct"
          /\ UNCHANGED <<skills_file, custom_db>>
       \/ /\ args_skills = "given"
          /\ \E f \in {"missing", "bad"} : skills_file' = f
          /\ pc' = "except"
          /\ UNCHANGED custom_db
       \/ /\ args_skills = "given"
          /\ skills_file' = "ok"
          /\ \E v \in JsonValues : custom_db' = v
          /\ pc' = "construct"
    /\ UNCHANGED <<args_skills, db_file, resume_file, db_content, skills_db, text,
                   counts, suggestions, out, exit_code>>

\* analyzer = ResumeAnalyzer(skills_db)
Construct ==
    /\ pc = "construct"
    /\ \/ /\ Truthy(custom_db)
          /\ skills_db' = InitSkillsDb(custom_db, FALSE, None)
          /\ pc' = "extract"
          /\ UNCHANGED <<db_file, db_content>>
       \/ /\ ~Truthy(custom_db)
          /\ db_file' = "missing"
          /\ skills_db' = InitSkillsDb(custom_db, FALSE, None)
          /\ pc' = "extract"
          /\ UNCHANGED db_content
       \/ /\ ~Truthy(custom_db)
          /\ db_file' = "bad"
          /\ pc' = "except"
          /\ UNCHANGED <<db_content, skills_db>>
       \/ /\ ~Truthy(custom_db)
          /\ db_file' = "ok"
          /\ \E v \in JsonValues :
                /\ db_content' = v
                /\ skills_db' = InitSkillsDb(custom_db, TRUE, v)
          /\ pc' = "extract"
    /\ UNCHANGED <<args_skills, skills_file, resume_file, custom_db, text, counts,
                   suggestions, out, exit_code>>

\* text = analyzer.extract_text(args.resume)
ExtractText ==
    /\ pc = "extract"
    /\ \/ /\ \E f \in {"missing", "bad"} : resume_file' = f
          /\ pc' = "except"
          /\ UNCHANGED text
       \/ /\ resume_file' = "ok"
          /\ \E t \in Texts : text' = t
          /\ pc' = "analyze"
    /\ UNCHANGED <<args_skills, skills_file, db_file, custom_db, db_content,
                   skills_db, counts, suggestions, out, exit_code>>

\* counts = analyzer.analyze_skills(text); a value without .items() raises
AnalyzeSkills ==
    /\ pc = "analyze"
    /\ \/ /\ skills_db = NotAMapping
          /\ pc' = "except"
          /\ UNCHANGED counts
       \/ /\ skills_db # NotAMapping
          /\ counts' = analyze_skills(skills_db.db, text)
          /\ pc' = "suggest"
    /\ UNCHANGED <<args_skills, skills_file, db_file, resume_file, custom_db,
                   db_content, skills_db, text, suggestions, out, exit_code>>

\* suggestions = analyzer.suggest_improvements(counts)
SuggestImprovements ==
    /\ pc = "suggest"
    /\ suggestions' = suggest_improvements(skills_db.db, counts)
    /\ pc' = "print_banner"
    /\ UNCHANGED <<args_skills, skills_file, db_file, resume_file, custom_db,
                   db_content, skills_db, text, counts, out, exit_code>>

\* print(f"... Analyzing: {os.path.basename(args.resume)}")
PrintBanner ==
    /\ pc = "print_banner"
    /\ out' = Append(out, [kind |-> "banner"])
    /\ pc' = "print_report"
    /\ UNCHANGED <<args_skills, skills_file, db_file, resume_file, custom_db,
                   db_content, skills_db, text, counts, suggestions, exit_code>>

\* print(analyzer.generate_report(counts, suggestions)); main returns, exit 0
PrintReport ==
    /\ pc = "print_report"
    /\ out' = Append(out, [kind |-> "report",
                           lines |-> generate_report(counts, suggestions)])
    /\ exit_code' = <<0>>
    /\ pc' = "done"
    /\ UNCHANGED <<args_skills, skills_file, db_file, resume_file, custom_db,
                   db_content, skills_db, text, counts, suggestions>>

\* variant: the handler prints and falls through, without exit(1)
ExceptExitZero ==
    /\ pc = "except"
    /\ out' = Append(out, [kind |-> "error"])
    /\ exit_code' = <<0>>
    /\ pc' = "done"
    /\ UNCHANGED <<args_skills, skills_file, db_file, resume_file, custom_db,
                   db_content, skills_db, text, counts, suggestions>>

\* except Exception as e: print(f"... Error: {str(e)}"); exit(1)
Except ==
    /\ pc = "except"
    /\ out' = Append(out, [kind |-> "error"])
    /\ exit_code' = <<1>>
    /\ pc' = "done"
    /\ UNCHANGED <<args_skills, skills_file, db_file, resume_file, custom_db,
                   db_content, skills_db, text, counts, suggestions>>

Next ==
    \/ LoadCustom
    \/ Construct
    \/ ExtractText
    \/ AnalyzeSkills
    \/ SuggestImprovements
    \/ PrintBanner
    \/ PrintReport
    \/ Except

Spec == Init /\ [][Next]_vars

(***************************************************************************)
(* Function-level harness: suggest_improvements and generate_report are    *)
(* public methods; here they are applied to every taxonomy and every       *)
(* skill-counts mapping of the universe, not only to what analyze_skills   *)
(* returns.                                                                *)
(***************************************************************************)
CountMaps == UNION {[K -> 1..MaxCount] : K \in SUBSET SkillNames}

InitFn ==
    /\ pc = "fn_suggest"
    /\ args_skills = "none"
    /\ skills_file = "unread"
    /\ db_file = "unread"
    /\ resume_file = "unread"
    /\ custom_db = None
    /\ db_content = None
    /\ skills_db \in {Dict(t) : t \in Taxonomies \cup {DEFAULT_SKILLS}}
    /\ text = << >>
    /\ counts \in CountMaps
    /\ suggestions = << >>
    /\ out = << >>
    /\ exit_code = << >>

FnSuggest ==
    /\ pc = "fn_suggest"
    /\ suggestions' = suggest_improvements(skills_db.db, counts)
    /\ pc' = "fn_report"
    /\ UNCHANGED <<args_skills, skills_file, db_file, resume_file, custom_db,
                   db_content, skills_db, text, counts, out, exit_code>>

FnReport ==
    /\ pc = "fn_report"
    /\ out' = <<[kind |-> "report", lines |-> generate_report(counts, suggestions)]>>
    /\ pc' = "fn_done"
    /\ UNCHANGED <<args_skills, skills_file, db_file, resume_file, custom_db,
                   db_content, skills_db, text, counts, suggestions, exit_code>>

NextFn ==
    \/ FnSuggest
    \/ FnReport

SpecFn == InitFn /\ [][NextFn]_vars

(***************************************************************************)
(* Vocabulary of the properties.                                           *)
(***************************************************************************)
\* analyze_skills has returned in this run of main
Analyzed ==
    \/ pc \in {"suggest", "print_banner", "print_report"}
    \/ pc = "done" /\ exit_code = <<0>>

\* main has printed the report and exited 0
Reported == pc = "done" /\ exit_code = <<0>>

\* suggest_improvements has returned in the function-level harness
FnSuggested == pc \in {"fn_report", "fn_done"}

\* sub occurs somewhere in t
Occurs(sub, t) ==
    \E i \in 0..Len(t) :
        /\ i + Len(sub) <= Len(t)
        /\ SubSeq(t, i + 1, i + Len(sub)) = sub

\* the start positions of the occurrences of sub in t
Starts(sub, t) ==
    {i \in 0..Len(t) : i + Len(sub) <= Len(t) /\ SubSeq(t, i + 1, i + Len(sub)) = sub}

\* the number of non-overlapping occurrences of sub in t: the size of the
\* largest set of occurrences no two of which share a character
Occurrences(sub, t) ==
    LET Disjoint(S) ==
            \A i, j \in S : i < j => i + Len(sub) <= j
        sizes == {Cardinality(S) : S \in {T \in SUBSET Starts(sub, t) : Disjoint(T)}}
    IN  CHOOSE n \in sizes : \A m \in sizes : m <= n

\* a < b lexicographically
LexLess(a, b) ==
    \E n \in 0..Len(a) :
        /\ n <= Len(b)
        /\ \A i \in 1..n : a[i] = b[i]
        /\ \/ n = Len(a) /\ n < Len(b)
           \/ n < Len(a) /\ n < Len(b) /\ a[n + 1] < b[n + 1]

\* s is t with some elements left out
IsSubsequence(s, t) ==
    \E f \in [1..Len(s) -> 1..Len(t)] :
        /\ \A i, j \in 1..Len(s) : i < j => f[i] < f[j]
        /\ \A i \in 1..Len(s) : s[i] = t[f[i]]

\* the taxonomy in use, its skills, and the category record of a name
Db == skills_db.db
DbSkills == Range(AllSkills(Db))
CategoryOf(name) == CHOOSE c \in Range(Db) : c.category = name

\* how many entries of category i are keys of the skill-counts mapping
NFound(i) ==
    Cardinality({j \in 1..Len(Db[i].skills) : Db[i].skills[j] \in DOMAIN counts})

\* the categories that get a suggestion, and the k-th of them
Deficient == {i \in 1..Len(Db) : NFound(i) < 2}
NthDeficient(k) ==
    CHOOSE i \in Deficient : Cardinality({j \in Deficient : j < i}) = k - 1

\* the lines of a report, and the positions of its per-skill lines
SkillIdx(lines) == {i \in 1..Len(lines) : lines[i].kind = "skill"}
HasLine(lines, kind) == \E i \in 1..Len(lines) : lines[i].kind = kind

(***************************************************************************)
(* C1.  Each value of the mapping returned by analyze_skills is the number *)
(* of non-overlapping occurrences of the lower-cased skill name in the     *)
(* text, also for a skill listed more than once (counted once, not         *)
(* summed).                                                                *)
(***************************************************************************)
C1_CountIsOccurrences ==
    Analyzed => \A k \in DOMAIN counts : counts[k] = Occurrences(lower(k), text)

(***************************************************************************)
(* C2.  The mapping returned by analyze_skills has only taxonomy skills as *)
(* keys, every value is >= 1, and a taxonomy skill is a key iff its        *)
(* lower-cased name occurs in the text.                                    *)
(***************************************************************************)
C2_KeysAreOccurringSkills ==
    Analyzed =>
        /\ DOMAIN counts \subseteq DbSkills
        /\ \A k \in DOMAIN counts : counts[k] >= 1
        /\ \A sk \in DbSkills : sk \in DOMAIN counts <=> Occurs(lower(sk), text)

C2_Witness ==
    /\ Analyzed
    /\ DOMAIN counts # {}
    /\ \E sk \in DbSkills : sk \notin DOMAIN counts

(***************************************************************************)
(* C3.  A --skills file that parses is the taxonomy in use, whatever it    *)
(* contains; with no --skills, skills_db.json is used if it exists and     *)
(* DEFAULT_SKILLS only if it does not.                                     *)
(***************************************************************************)
C3_TaxonomySource ==
    skills_db # None =>
        /\ skills_file = "ok" => skills_db = custom_db
        /\ (args_skills = "none" /\ db_file = "ok") => skills_db = db_content
        /\ (args_skills = "none" /\ db_file = "missing") =>
                skills_db = Dict(DEFAULT_SKILLS)
        /\ (args_skills = "none" /\ skills_db = Dict(DEFAULT_SKILLS)) =>
                db_file = "missing"

(***************************************************************************)
(* C4.  A run of main in which a stage fails prints an error, exits 1 and  *)
(* prints no report; a run in which none fails prints the banner, then the *)
(* full report, and exits 0.                                               *)
(***************************************************************************)
StageFailed ==
    \/ skills_file \in {"missing", "bad"}
    \/ db_file = "bad"
    \/ resume_file \in {"missing", "bad"}
    \/ skills_db = NotAMapping /\ pc \in {"except", "done"}

FullReport ==
    LET sc == analyze_skills(Db, text)
    IN  generate_report(sc, suggest_improvements(Db, sc))

C4_ErrorOrFullReport ==
    /\ StageFailed => \A i \in 1..Len(out) : out[i].kind # "report"
    /\ pc = "done" =>
        IF StageFailed
        THEN exit_code = <<1>> /\ out = <<[kind |-> "error"]>>
        ELSE /\ exit_code = <<0>>
             /\ Len(out) = 2
             /\ out[1].kind = "banner"
             /\ out[2].kind = "report"
             /\ out[2].lines = FullReport

C4_Witness ==
    /\ pc = "done"
    /\ skills_file = "ok"
    /\ resume_file = "missing"
    /\ exit_code = <<1>>

(***************************************************************************)
(* C5.  suggest_improvements emits, in category order, one "missing"       *)
(* suggestion for a category none of whose skills is a key, one "few"      *)
(* suggestion for a category with exactly one, nothing otherwise.          *)
(***************************************************************************)
C5_OneSuggestionPerDeficientCategory ==
    FnSuggested =>
        /\ Len(suggestions) = Cardinality(Deficient)
        /\ Len(suggestions) <= Len(Db)
        /\ \A k \in 1..Len(suggestions) :
            /\ suggestions[k].category = Db[NthDeficient(k)].category
            /\ suggestions[k].kind =
                    IF NFound(NthDeficient(k)) = 0 THEN "missing" ELSE "few"

C5_Witness ==
    /\ FnSuggested
    /\ Len(Db) = 2
    /\ NFound(1) = 2
    /\ Len(suggestions) = 1
    /\ suggestions[1].kind = "few"

(***************************************************************************)
(* C6.  Empty text, non-empty taxonomy: analyze_skills returns the empty   *)
(* mapping, the report has the "no skills" line and no per-skill line, and *)
(* every category gets a "missing" suggestion.                             *)
(***************************************************************************)
EmptyTextRun == Reported /\ text = << >> /\ Db # << >>

NothingDetected ==
    /\ DOMAIN counts = {}
    /\ HasLine(out[2].lines, "no_skills")
    /\ SkillIdx(out[2].lines) = {}
    /\ Len(suggestions) = Len(Db)
    /\ \A i \in 1..Len(Db) :
        /\ suggestions[i].kind = "missing"
        /\ suggestions[i].category = Db[i].category

\* as stated
C6_EmptyTextNothingDetected == EmptyTextRun => NothingDetected

\* as amended: for a taxonomy none of whose skill names is the empty string
C6_EmptyTextNoEmptySkill ==
    (EmptyTextRun /\ << >> \notin DbSkills) => NothingDetected

C6_Witness ==
    /\ EmptyTextRun
    /\ << >> \notin DbSkills
    /\ Len(Db) = 2
    /\ \A i \in 1..Len(Db) : Db[i].skills # << >>

(***************************************************************************)
(* C7.  The per-skill lines of the report are in strictly decreasing       *)
(* order of count, ties in strictly increasing order of name, and every    *)
(* key of the mapping is listed exactly once.                              *)
(***************************************************************************)
C7_ReportSorted ==
    pc = "fn_done" =>
        LET lines == out[1].lines
        IN  /\ \A i, j \in SkillIdx(lines) :
                i < j =>
                    \/ lines[i].cnt > lines[j].cnt
                    \/ /\ lines[i].cnt = lines[j].cnt
                       /\ LexLess(lines[i].skill, lines[j].skill)
            /\ \A i \in SkillIdx(lines) :
                /\ lines[i].skill \in DOMAIN counts
                /\ lines[i].cnt = counts[lines[i].skill]
            /\ \A k \in DOMAIN counts :
                Cardinality({i \in SkillIdx(lines) : lines[i].skill = k}) = 1

C7_Witness ==
    /\ pc = "fn_done"
    /\ Cardinality(DOMAIN counts) = 3
    /\ \E a, b, c \in DOMAIN counts :
        /\ a # b
        /\ counts[a] = counts[b]
        /\ counts[c] > counts[a]

(***************************************************************************)
(* C8.  In the report main prints, a count of 1 reads "1 mention" and any  *)
(* other count n reads "n mentions"; no line reads "0 mention" or          *)
(* "1 mentions".                                                           *)
(***************************************************************************)
C8_Pluralization ==
    Reported =>
        LET lines == out[2].lines
        IN  \A i \in SkillIdx(lines) :
                /\ lines[i].cnt = 1 => lines[i].suffix = ""
                /\ lines[i].cnt # 1 => lines[i].suffix = "s"
                /\ ~(lines[i].cnt = 0 /\ lines[i].suffix = "")
                /\ ~(lines[i].cnt = 1 /\ lines[i].suffix = "s")

C8_Witness ==
    /\ Reported
    /\ \E i, j \in SkillIdx(out[2].lines) :
        /\ out[2].lines[i].cnt = 1
        /\ out[2].lines[j].cnt > 1

(***************************************************************************)
(* C9.  A "missing" suggestion lists the first min(3, n) skills of its     *)
(* category; a "few" suggestion lists at most two skills of its category,  *)
(* none a key of the mapping, in taxonomy order, and at least one when the *)
(* category has one skill present and two or more distinct skills.         *)
(***************************************************************************)
C9_SuggestionLists ==
    FnSuggested =>
        \A k \in 1..Len(suggestions) :
            LET sg == suggestions[k]
                skills == CategoryOf(sg.category).skills
                n == Len(skills)
                present == {j \in 1..n : skills[j] \in DOMAIN counts}
            IN  /\ sg.kind = "missing" =>
                    /\ Len(sg.listed) = (IF n < 3 THEN n ELSE 3)
                    /\ \A i \in 1..Len(sg.listed) : sg.listed[i] = skills[i]
                /\ sg.kind = "few" =>
                    /\ Len(sg.listed) <= 2
                    /\ Range(sg.listed) \subseteq Range(skills) \ DOMAIN counts
                    /\ IsSubsequence(sg.listed, skills)
                    /\ (Cardinality(present) = 1 /\ Cardinality(Range(skills)) >= 2)
                            => sg.listed # << >>

C9_Witness ==
    /\ FnSuggested
    /\ \E k \in 1..Len(suggestions) :
        /\ suggestions[k].kind = "few"
        /\ Len(CategoryOf(suggestions[k].category).skills) > 3
        /\ Len(suggestions[k].listed) = 2

(***************************************************************************)
(* C10.  The report starts with the analysis header; it has the "no        *)
(* skills" line iff the mapping is empty; it has the suggestions header,   *)
(* followed by the suggestions in order, iff there are suggestions, and    *)
(* ends with the one "all good" line otherwise; never both.                *)
(***************************************************************************)
C10_ReportLayout ==
    pc = "fn_done" =>
        LET lines == out[1].lines
            n == Len(lines)
        IN  /\ lines[1].kind = "analysis_header"
            /\ HasLine(lines, "no_skills") <=> DOMAIN counts = {}
            /\ HasLine(lines, "suggestions_header") <=> suggestions # << >>
            /\ suggestions # << >> =>
                \E h \in 1..n :
                    /\ lines[h].kind = "suggestions_header"
                    /\ SubSeq(lines, h + 1, n) = suggestions
            /\ suggestions = << >> =>
                /\ lines[n].kind = "all_good"
                /\ Cardinality({i \in 1..n : lines[i].kind = "all_good"}) = 1
            /\ ~(HasLine(lines, "all_good") /\ HasLine(lines, "suggestions_header"))

C10_Witness ==
    /\ pc = "fn_done"
    /\ DOMAIN counts # {}
    /\ suggestions = << >>
    /\ Db # << >>

====
